---- MODULE Spec2Model ----
(***************************************************************************)
(* splunk2am: a webhook translator.  The listener (pkg/api/handlers.go)    *)
(* hands every request on /splunk-webhook to HandleSplunkWebhook, which    *)
(* decodes the Splunk payload, builds one Alertmanager v2 alert, POSTs it  *)
(* to <url>/api/v2/alerts and relays the outcome to the caller.            *)
(*                                                                         *)
(* The sources hold two revisions of HandleSplunkWebhook:                  *)
(*   - src/unnamed/part_002 (allow-list labels, start time from "_time"),  *)
(*   - src/pkg/alertmanager/archives/alertmanager.go.11022501, lines 37 to *)
(*     152 ("ann." prefix routing, start time from time.Now()).            *)
(* Both are modelled; the variable revision says which one the server was  *)
(* built with.                                                             *)
(*                                                                         *)
(* A Go string is a TLA+ string of its characters (Len, SubSeq and \o work  *)
(* on them).  A character outside ASCII is written as the six characters   *)
(* \uXXXX, with four lower-case hexadecimal digits, and the backslash      *)
(* itself as \u005c, so that a backslash always begins such a character.   *)
(***************************************************************************)
EXTENDS Integers, Sequences, FiniteSets, TLC

VARIABLES cfg, zone, revision, clock, pc, body, handledAt, outbox, reply,
          written

vars ==
    <<cfg, zone, revision, clock, pc, body, handledAt, outbox, reply, written>>

(***************************************************************************)
(* Bounds of the model.                                                    *)
(***************************************************************************)
MaxEntries == 2
MaxClock == 1

Reqs == {1}

(***************************************************************************)
(* Go string helpers (package strings, strconv, time).                     *)
(***************************************************************************)
Char(s, i) == SubSeq(s, i, i)

HasPrefix(s, prefix) ==
    /\ Len(s) >= Len(prefix)
    /\ SubSeq(s, 1, Len(prefix)) = prefix

TrimPrefix(s, prefix) ==
    IF HasPrefix(s, prefix) THEN SubSeq(s, Len(prefix) + 1, Len(s)) ELSE s

\* strings.Contains
Contains(s, substr) ==
    \E i \in 1..(Len(s) + 1) :
        /\ i + Len(substr) - 1 <= Len(s)
        /\ SubSeq(s, i, i + Len(substr) - 1) = substr

\* Position of the first sep in s, 0 when there is none (strings.Index for a
\* one-character separator).
RECURSIVE IndexFrom(_, _, _)
IndexFrom(s, sep, i) ==
    IF i > Len(s) THEN 0
    ELSE IF Char(s, i) = sep THEN i
    ELSE IndexFrom(s, sep, i + 1)

\* strings.Split(s, sep) for a one-character sep: "" gives <<"">>.
RECURSIVE Split(_, _)
Split(s, sep) ==
    LET i == IndexFrom(s, sep, 1) IN
    IF i = 0 THEN <<s>>
    ELSE <<SubSeq(s, 1, i - 1)>> \o Split(SubSeq(s, i + 1, Len(s)), sep)

IsDigit(c) == c \in {"0", "1", "2", "3", "4", "5", "6", "7", "8", "9"}

DigitVal(c) ==
    CASE c = "0" -> 0 [] c = "1" -> 1 [] c = "2" -> 2 [] c = "3" -> 3
      [] c = "4" -> 4 [] c = "5" -> 5 [] c = "6" -> 6 [] c = "7" -> 7
      [] c = "8" -> 8 [] c = "9" -> 9

\* Length of the leading run of decimal digits of s, counted from position i.
RECURSIVE DigitRun(_, _)
DigitRun(s, i) ==
    IF i <= Len(s) /\ IsDigit(Char(s, i)) THEN 1 + DigitRun(s, i + 1) ELSE 0

\* The length of the character at position i of s.
CharLen(s, i) == IF Char(s, i) = "\\" THEN 6 ELSE 1

\* Length of the leading run of unit characters (neither digit nor '.').
RECURSIVE UnitRun(_, _)
UnitRun(s, i) ==
    IF i <= Len(s) /\ ~IsDigit(Char(s, i)) /\ Char(s, i) # "."
    THEN CharLen(s, i) + UnitRun(s, i + CharLen(s, i)) ELSE 0

RECURSIVE DecimalValue(_)
DecimalValue(s) ==
    IF Len(s) = 0 THEN 0
    ELSE DecimalValue(SubSeq(s, 1, Len(s) - 1)) * 10 + DigitVal(Char(s, Len(s)))

\* A string of digits without its leading zeros.
RECURSIVE TrimZeros(_)
TrimZeros(s) ==
    IF Len(s) > 0 /\ Char(s, 1) = "0" THEN TrimZeros(SubSeq(s, 2, Len(s)))
    ELSE s

\* a > b for two strings of digits of the same length.
RECURSIVE DigitsAbove(_, _)
DigitsAbove(a, b) ==
    IF Len(a) = 0 THEN FALSE
    ELSE IF Char(a, 1) = Char(b, 1)
    THEN DigitsAbove(SubSeq(a, 2, Len(a)), SubSeq(b, 2, Len(b)))
    ELSE DigitVal(Char(a, 1)) > DigitVal(Char(b, 1))

\* The number written by digits is above the number written by limit (limit
\* without leading zeros).  The comparison is made on the text, as the limits
\* of the 64-bit integers are.
Exceeds(digits, limit) ==
    LET a == TrimZeros(digits) IN
    \/ Len(a) > Len(limit)
    \/ Len(a) = Len(limit) /\ DigitsAbove(a, limit)

\* strconv.ParseInt(s, 10, 64): an optional sign and at least one digit,
\* nothing else (ErrSyntax), and a value within -2^63 .. 2^63 - 1 (ErrRange).
ParseInt(s) ==
    LET signed == Len(s) > 0 /\ Char(s, 1) \in {"+", "-"}
        neg == signed /\ Char(s, 1) = "-"
        digits == IF signed THEN SubSeq(s, 2, Len(s)) ELSE s
    IN  IF Len(digits) = 0 \/ DigitRun(digits, 1) # Len(digits)
        THEN [err |-> TRUE, n |-> 0]
        ELSE IF Exceeds(digits, IF neg THEN "9223372036854775808"
                                ELSE "9223372036854775807")
        THEN [err |-> TRUE, n |-> 0]
        ELSE [err |-> FALSE,
              n |-> IF neg THEN 0 - DecimalValue(digits)
                    ELSE DecimalValue(digits)]

(***************************************************************************)
(* package time.  A Duration is a 64-bit count of nanoseconds and a Time a *)
(* count of seconds with nanoseconds; both are kept here as seconds and    *)
(* nanoseconds (0 .. 10^9 - 1 for a Time and for a duration being summed,  *)
(* both of the sign of the duration for a Duration).  The seconds of a     *)
(* Time are those of Unix time, what t.Unix() returns.                     *)
(***************************************************************************)
Giga == 1000000000

Nanos(sec, nsec) == [sec |-> sec, nsec |-> nsec]

\* The seconds and nanoseconds of a count of n nanoseconds.
FromNs(n) == Nanos(n \div Giga, n % Giga)

AddNanos(a, b) ==
    LET n == a.nsec + b.nsec IN
    Nanos(a.sec + b.sec + (n \div Giga), n % Giga)

\* 2^63 nanoseconds are 9223372036 s and 854775808 ns.
Is2p63(a) ==
    a.sec \div 10 = 922337203 /\ a.sec % 10 = 6 /\ a.nsec = 854775808

Above2p63(a) ==
    \/ a.sec \div 10 > 922337203
    \/ /\ a.sec \div 10 = 922337203
       /\ \/ a.sec % 10 > 6
          \/ a.sec % 10 = 6 /\ a.nsec > 854775808

RECURSIVE Pow10(_)
Pow10(k) == IF k = 0 THEN 1 ELSE 10 * Pow10(k - 1)

RECURSIVE Pow2(_)
Pow2(k) == IF k = 0 THEN 1 ELSE 2 * Pow2(k - 1)

(***************************************************************************)
(* float64 arithmetic on values that are not negative, as                  *)
(* time.ParseDuration uses it.  A finite value is kept as a fraction n/d   *)
(* equal to it, +Inf as 1/0.  The least value above zero is 2^-1074 and    *)
(* the values run up to 2^1024, mantissas having 53 bits.                  *)
(***************************************************************************)
MantissaBits == 53
MinExponent == -1074
MaxExponent == 1024

\* 1 / 2^MinExponent: every finite value is a whole multiple of 1 / Bias.
Bias == Pow2(0 - MinExponent)

\* n/d rounded to the nearest integer, a tie to the even one.
RoundHalfEven(n, d) ==
    IF 2 * (n % d) < d \/ (2 * (n % d) = d /\ (n \div d) % 2 = 0)
    THEN n \div d
    ELSE n \div d + 1

\* The exponent of the float64 nearest to n/d, counted from MinExponent: the
\* least b from 0 on with n/d below 2^(53 + b).
RECURSIVE Exponent(_, _, _)
Exponent(n, d, b) ==
    IF n < Pow2(MantissaBits + b) * d THEN b ELSE Exponent(n, d, b + 1)

\* The float64 that is v / Bias, +Inf from 2^MaxExponent on.
Float64(v) ==
    IF v >= Pow2(MaxExponent - MinExponent) THEN [n |-> 1, d |-> 0]
    ELSE [n |-> v, d |-> Bias]

\* n/d rounded to a mantissa at the exponent b.
RoundAt(n, d, b) == Float64(RoundHalfEven(n, d * Pow2(b)) * Pow2(b))

\* The float64 nearest to n/d (round to nearest, ties to even).
Round64(n, d) ==
    IF d = 0 THEN [n |-> 1, d |-> 0]
    ELSE RoundAt(n * Bias, d, Exponent(n * Bias, d, 0))

\* scale of leadingFraction: 1, then scale *= 10 for every digit kept.
TimesTen(scale) == Round64(scale.n * 10, scale.d)

RECURSIVE Scale(_)
Scale(k) == IF k = 0 THEN [n |-> 1, d |-> 1] ELSE TimesTen(Scale(k - 1))

\* float64(unit) / scale; the units are below 2^53, which float64 holds
\* exactly.
PerScale(unit, scale) == Round64(unit * scale.d, scale.n)

\* float64(f) * q
TimesFloat64(f, q) == Round64(f.n * q.n, f.d * q.d)

\* uint64(x)
Truncated(x) == x.n \div x.d

\* uint64(float64(f) * (float64(unit) / scale)), unit in nanoseconds.
Float64Fraction(f, k, unit) ==
    Truncated(TimesFloat64(Round64(f, 1), PerScale(unit, Scale(k))))

\* unitMap of time.ParseDuration; the microsecond has three spellings, with
\* u, with the micro sign U+00B5 and with the Greek letter mu U+03BC.
KnownUnit(u) ==
    u \in {"ns", "us", "\\u00b5s", "\\u03bcs", "ms", "s", "m", "h"}

UnitNanos(u) ==
    CASE u = "ns" -> Nanos(0, 1)
      [] u \in {"us", "\\u00b5s", "\\u03bcs"} -> Nanos(0, 1000)
      [] u = "ms" -> Nanos(0, 1000000)
      [] u = "s" -> Nanos(1, 0)
      [] u = "m" -> Nanos(60, 0)
      [] u = "h" -> Nanos(3600, 0)

\* v *= unit
Times(v, unit) ==
    IF unit.sec > 0 THEN Nanos(v * unit.sec, 0)
    ELSE LET per == Giga \div unit.nsec IN
         Nanos(v \div per, (v % per) * unit.nsec)

\* leadingFraction: of the k digits at the head of s the function keeps the
\* first ones, as long as their value stays within 2^63, and drops the rest.
RECURSIVE KeptDigits(_, _)
KeptDigits(s, k) ==
    IF k > 0 /\ Exceeds(SubSeq(s, 1, k), "9223372036854775808")
    THEN KeptDigits(s, k - 1)
    ELSE k

\* 10^k divides the unit.
TenPowerDivides(k, unit) ==
    IF unit.sec > 0
    THEN k <= 9 \/ (k <= 12 /\ unit.sec % Pow10(k - 9) = 0)
    ELSE k <= 9 /\ unit.nsec % Pow10(k) = 0

\* if f > 0 { v += uint64(float64(f) * (float64(unit) / scale)) } for the k
\* digits f kept after the period, scale being 10^k in float64.  When 10^k
\* divides the unit, scale, the quotient and the product are integers below
\* 2^53, which float64 holds exactly: the result is f * (unit / 10^k).
Fraction(f, k, unit) ==
    IF f = 0 THEN Nanos(0, 0)
    ELSE IF ~TenPowerDivides(k, unit)
    THEN FromNs(Float64Fraction(f, k, unit.sec * Giga + unit.nsec))
    ELSE IF unit.sec = 0 THEN Nanos(0, f * (unit.nsec \div Pow10(k)))
    ELSE IF k > 9 THEN FromNs(f * (unit.sec \div Pow10(k - 9)))
    ELSE Nanos((f * unit.sec) \div Pow10(k),
               ((f * unit.sec) % Pow10(k)) * Pow10(9 - k))

\* The loop of time.ParseDuration over the groups [0-9]*(\.[0-9]*)?[a-z]+ of
\* s, d being the sum so far.  A group is an error when it has no digit, no
\* unit or an unknown unit, and when a number, the group or the sum passes
\* 2^63; the sum is a uint64, so that 2^63 + 2^63 is 0.
RECURSIVE DurationGroups(_, _)

\* d += v, then the groups that follow.
DurationSum(rest, d, group) ==
    IF Is2p63(d) /\ Is2p63(group) THEN DurationGroups(rest, Nanos(0, 0))
    ELSE IF Above2p63(AddNanos(d, group)) THEN [err |-> TRUE, d |-> d]
    ELSE DurationGroups(rest, AddNanos(d, group))

\* v *= unit, v += the fraction of the unit.
DurationValue(rest, d, whole, fraction) ==
    IF Above2p63(whole) \/ Above2p63(AddNanos(whole, fraction))
    THEN [err |-> TRUE, d |-> d]
    ELSE DurationSum(rest, d, AddNanos(whole, fraction))

\* The unit: the u characters of s up to the next digit or period.  v are
\* the digits before the period, f the digits kept after it, post says
\* whether there was a digit after it.
DurationUnit(s, d, v, f, post, u) ==
    IF (Len(v) = 0 /\ ~post) \/ u = 0 \/ ~KnownUnit(SubSeq(s, 1, u))
    THEN [err |-> TRUE, d |-> d]
    ELSE DurationValue(SubSeq(s, u + 1, Len(s)), d,
                       Times(DecimalValue(v), UnitNanos(SubSeq(s, 1, u))),
                       Fraction(DecimalValue(f), Len(f),
                                UnitNanos(SubSeq(s, 1, u))))

\* leadingFraction: the k digits at the head of s, after the period.
LeadingFraction(s, d, v, k) ==
    DurationUnit(SubSeq(s, k + 1, Len(s)), d, v,
                 SubSeq(s, 1, KeptDigits(s, k)), k > 0, UnitRun(s, k + 1))

\* leadingInt: the n digits at the head of s, then the period if there is one.
LeadingInt(s, d, n) ==
    IF Exceeds(SubSeq(s, 1, n), "9223372036854775808")
    THEN [err |-> TRUE, d |-> d]
    ELSE IF n < Len(s) /\ Char(s, n + 1) = "."
    THEN LeadingFraction(SubSeq(s, n + 2, Len(s)), d, SubSeq(s, 1, n),
                         DigitRun(s, n + 2))
    ELSE DurationUnit(SubSeq(s, n + 1, Len(s)), d, SubSeq(s, 1, n), "",
                      FALSE, UnitRun(s, n + 1))

DurationGroups(s, d) ==
    IF Len(s) = 0 THEN [err |-> FALSE, d |-> d]
    ELSE LeadingInt(s, d, DigitRun(s, 1))

\* time.ParseDuration(s): an optional sign, then "0" or one group or more;
\* the value is within -2^63 .. 2^63 - 1 nanoseconds.
ParseDuration(s) ==
    LET signed == Len(s) > 0 /\ Char(s, 1) \in {"+", "-"}
        neg == signed /\ Char(s, 1) = "-"
        rest == IF signed THEN SubSeq(s, 2, Len(s)) ELSE s
        g == DurationGroups(rest, Nanos(0, 0))
    IN  IF rest = "0" THEN [err |-> FALSE, d |-> Nanos(0, 0)]
        ELSE IF Len(rest) = 0 \/ g.err THEN [err |-> TRUE, d |-> Nanos(0, 0)]
        ELSE IF neg
        THEN [err |-> FALSE, d |-> Nanos(0 - g.d.sec, 0 - g.d.nsec)]
        ELSE IF Is2p63(g.d) THEN [err |-> TRUE, d |-> Nanos(0, 0)]
        ELSE [err |-> FALSE, d |-> g.d]

(***************************************************************************)
(* A Time keeps its seconds as an int64 counted from the year 1, which is  *)
(* 62135596800 seconds before Unix time: time.Unix adds that number, with  *)
(* the wrap-around of int64, and t.Unix() subtracts it.                    *)
(***************************************************************************)
UnixToInternal == 621355968 * 100

MaxInt64 == Pow2(63) - 1

\* The int64 that a sum or difference n of two int64 wraps to.
Wrap64(n) ==
    IF n > MaxInt64 THEN n - Pow2(64)
    ELSE IF n < 0 - Pow2(63) THEN n + Pow2(64)
    ELSE n

\* -2^31 <= n < 2^31
Small(n) == n \div 1073741824 \in {-2, -1, 0, 1}

\* time.Unix(sec, 0), and time.Now() when the clock reads sec.
Unix(sec) == Nanos(sec, 0)

\* t.addSec(d): the sum of the internal seconds ext and d, kept at
\* +-(2^63 - 1) when it passes the int64.
AddSec(ext, d) ==
    IF ext + d > MaxInt64 THEN MaxInt64
    ELSE IF ext + d < 0 - Pow2(63) THEN 0 - MaxInt64
    ELSE ext + d

\* t.Add(d).  With both the seconds of t and of d within 32 bits nothing
\* wraps and nothing is cut: the seconds are the sum.
Add(t, d) ==
    LET n == t.nsec + d.nsec
        carry == IF n >= Giga THEN 1 ELSE IF n < 0 THEN -1 ELSE 0
        dsec == d.sec + carry
        nsec == n - carry * Giga
    IN  IF Small(t.sec) /\ Small(dsec) THEN Nanos(t.sec + dsec, nsec)
        ELSE Nanos(Wrap64(AddSec(Wrap64(t.sec + UnixToInternal), dsec)
                            - UnixToInternal),
                   nsec)

\* The zones a process of the model runs in (its TZ): UTC and Asia/Tokyo.
UTC == "UTC"
Tokyo == "Asia/Tokyo"

\* Asia/Tokyo in the zone database.  Local mean time, 9 h 18 min 59 s east of
\* UTC, holds before 1887-12-31T15:00:00Z = -2587712400 = TokyoStandardFrom
\* * 100; from then on standard time, 9 h east, except in the four summers of
\* 1948 to 1951, 10 h east.  Each summer is <<first, end>> in hundreds of
\* seconds since the epoch, the end excluded (every transition of the zone
\* falls on a multiple of 100 seconds).
TokyoStandardFrom == -25877124
TokyoSummers ==
    {<<-6838020, -6723108>>, <<-6547716, -6408612>>,
     <<-6202980, -6094116>>, <<-5888484, -5779620>>}

\* Location.lookup: the offset from UTC, in seconds east, that zone z has at
\* the instant sec.
Lookup(z, sec) ==
    IF z = UTC THEN 0
    ELSE IF sec \div 100 < TokyoStandardFrom THEN 33539
    ELSE IF \E p \in TokyoSummers :
                p[1] <= sec \div 100 /\ sec \div 100 < p[2] THEN 36000
    ELSE 32400

\* Time.MarshalJSON fails for a year outside 0 .. 9999, the year being taken
\* in the zone z of the process (time.Unix and time.Now give local times), at
\* the offset the zone has at that instant.  In local seconds year 0 begins
\* at -62167219200 = -77709024 * 800 and year 10000 at 253402300800 =
\* 316752876 * 800.
YearOutOfRange(t, z) ==
    \/ (t.sec + Lookup(z, t.sec)) \div 800 < -77709024
    \/ (t.sec + Lookup(z, t.sec)) \div 800 >= 316752876

(***************************************************************************)
(* Go maps with string keys.                                               *)
(***************************************************************************)
EmptyMap == [k \in {} |-> ""]

Put(m, k, v) == [x \in DOMAIN m \cup {k} |-> IF x = k THEN v ELSE m[x]]

(***************************************************************************)
(* JSON documents.  A value carries its JSON type; scalars keep their      *)
(* literal text, objects their members (a map from name to value).         *)
(***************************************************************************)
JStr(s) == [type |-> "string", val |-> s]
JNum(t) == [type |-> "number", val |-> t]
JNull == [type |-> "null", val |-> "null"]
JBool(t) == [type |-> "boolean", val |-> t]
JArr == [type |-> "array", val |-> "[]"]
JObj(m) == [type |-> "object", members |-> m]

NoMembers == [k \in {} |-> JNull]

(***************************************************************************)
(* pkg/config: the configuration is read once from the flags.              *)
(***************************************************************************)
LoadConfig(flags) ==
    [AlertmanagerURL  |-> flags.u,
     EndsAtDuration   |-> flags.e,
     AdditionalLabels |-> Split(flags.addLabels, ","),
     AnnotationPrefix |-> flags.p]

(***************************************************************************)
(* encoding/json into SplunkPayload (part_002) / SplunkWebhook (archive).  *)
(*   Sid, SearchName, App, ResultsLink : string; Owner : string, in        *)
(*   SplunkPayload only                                                    *)
(*   Result : map[string]interface{}                                       *)
(* A member is decoded into the field of its name, or else of its name     *)
(* without regard to case.  A null member leaves a string as it is and     *)
(* makes the map nil, a member of the wrong JSON type is an                *)
(* UnmarshalTypeError, a member of no field is skipped, a top-level null   *)
(* decodes to the zero struct, any other top-level non-object is an error. *)
(***************************************************************************)
\* Case folding of the ASCII letters.
FoldChar(c) ==
    CASE c = "A" -> "a" [] c = "B" -> "b" [] c = "C" -> "c" [] c = "D" -> "d"
      [] c = "E" -> "e" [] c = "F" -> "f" [] c = "G" -> "g" [] c = "H" -> "h"
      [] c = "I" -> "i" [] c = "J" -> "j" [] c = "K" -> "k" [] c = "L" -> "l"
      [] c = "M" -> "m" [] c = "N" -> "n" [] c = "O" -> "o" [] c = "P" -> "p"
      [] c = "Q" -> "q" [] c = "R" -> "r" [] c = "S" -> "s" [] c = "T" -> "t"
      [] c = "U" -> "u" [] c = "V" -> "v" [] c = "W" -> "w" [] c = "X" -> "x"
      [] c = "Y" -> "y" [] c = "Z" -> "z"
      [] OTHER -> c

\* The characters outside ASCII that fold to a letter of ASCII: the long s
\* U+017F and the Kelvin sign U+212A.
FoldRune(c) ==
    CASE c = "\\u017f" -> "s"
      [] c = "\\u212a" -> "k"
      [] OTHER -> c

\* k from position i on is name from position j on but for the case of
\* letters, character by character.
RECURSIVE FoldsTo(_, _, _, _)
FoldsTo(k, i, name, j) ==
    IF i > Len(k) \/ j > Len(name) THEN i > Len(k) /\ j > Len(name)
    ELSE /\ IF CharLen(k, i) = 6
            THEN FoldRune(SubSeq(k, i, i + 5)) = Char(name, j)
            ELSE FoldChar(Char(k, i)) = Char(name, j)
         /\ FoldsTo(k, i + CharLen(k, i), name, j + 1)

\* The name of a member is the name of a field (lower-case ASCII) but for
\* the case of letters.  A member name of the length of the field name has
\* characters of ASCII only, or does not match.
EqualFold(k, name) ==
    IF Len(k) = Len(name)
    THEN \A i \in 1..Len(k) : FoldChar(Char(k, i)) = Char(name, i)
    ELSE Len(k) > Len(name) /\ FoldsTo(k, 1, name, 1)

RECURSIVE SeqOf(_)
SeqOf(S) ==
    IF S = {} THEN <<>>
    ELSE LET k == CHOOSE k \in S : TRUE IN <<k>> \o SeqOf(S \ {k})

\* The members of the document that are decoded into the field called name,
\* in the order of the document.  The members are kept as a map, which has
\* no order: when several members go to one field, the document is the text
\* in which the member of the exact name comes last.
FieldMembers(m, name) ==
    SeqOf({k \in DOMAIN m : k # name /\ EqualFold(k, name)})
      \o (IF name \in DOMAIN m THEN <<name>> ELSE <<>>)

RECURSIVE DecodeString(_, _, _)
DecodeString(m, keys, acc) ==
    IF keys = <<>> THEN acc
    ELSE LET v == m[Head(keys)] IN
         DecodeString(m, Tail(keys),
             IF v.type = "null" THEN acc
             ELSE IF v.type = "string" THEN [acc EXCEPT !.v = v.val]
             ELSE [acc EXCEPT !.err = TRUE])

StringField(m, name) ==
    DecodeString(m, FieldMembers(m, name), [err |-> FALSE, v |-> ""])

\* An object is decoded into the map the field already holds.
Merge(a, b) ==
    [x \in DOMAIN a \cup DOMAIN b |-> IF x \in DOMAIN b THEN b[x] ELSE a[x]]

RECURSIVE DecodeMap(_, _, _)
DecodeMap(m, keys, acc) ==
    IF keys = <<>> THEN acc
    ELSE LET v == m[Head(keys)] IN
         DecodeMap(m, Tail(keys),
             IF v.type = "null" THEN [acc EXCEPT !.v = NoMembers]
             ELSE IF v.type = "object"
             THEN [acc EXCEPT !.v = Merge(@, v.members)]
             ELSE [acc EXCEPT !.err = TRUE])

MapField(m, name) ==
    DecodeMap(m, FieldMembers(m, name), [err |-> FALSE, v |-> NoMembers])

ZeroPayload ==
    [SearchName |-> "", App |-> "", ResultsLink |-> "", Result |-> NoMembers]

\* The string fields of the two structs.
SplunkPayloadFields == {"sid", "search_name", "app", "owner", "results_link"}
SplunkWebhookFields == {"sid", "search_name", "app", "results_link"}

\* json.Unmarshal(body, &splunkPayload), the struct having the string fields
\* named and the field Result.
Unmarshal(b, fields) ==
    IF b.kind # "json" THEN [err |-> TRUE, payload |-> ZeroPayload]
    ELSE IF b.doc.type = "null" THEN [err |-> FALSE, payload |-> ZeroPayload]
    ELSE IF b.doc.type # "object" THEN [err |-> TRUE, payload |-> ZeroPayload]
    ELSE LET m == b.doc.members
             result == MapField(m, "result")
         IN  [err |-> \/ \E f \in fields : StringField(m, f).err
                      \/ result.err,
              payload |-> [SearchName  |-> StringField(m, "search_name").v,
                           App         |-> StringField(m, "app").v,
                           ResultsLink |-> StringField(m, "results_link").v,
                           Result      |-> result.v]]

\* value.(string) on an entry of the result map
IsString(result, key) == key \in DOMAIN result /\ result[key].type = "string"

(***************************************************************************)
(* The outbound document: json.Marshal([]V2Alert{v2Alert}).  EndsAt is a   *)
(* *time.Time with omitempty: <<>> is nil and the member is left out.      *)
(***************************************************************************)
\* V2Alert with the GeneratorURL field left at its zero value.
V2AlertNoGeneratorURL(labels, annotations, startsAt, endsAt, generatorURL) ==
    [Status       |-> "firing",
     Labels       |-> labels,
     Annotations  |-> annotations,
     StartsAt     |-> startsAt,
     EndsAt       |-> endsAt,
     GeneratorURL |-> ""]

V2Alert(labels, annotations, startsAt, endsAt, generatorURL) ==
    [Status       |-> "firing",
     Labels       |-> labels,
     Annotations  |-> annotations,
     StartsAt     |-> startsAt,
     EndsAt       |-> endsAt,
     GeneratorURL |-> generatorURL]

Marshal(alert) ==
    IF alert.EndsAt = <<>>
    THEN <<[status       |-> alert.Status,
            labels       |-> alert.Labels,
            annotations  |-> alert.Annotations,
            startsAt     |-> alert.StartsAt,
            generatorURL |-> alert.GeneratorURL]>>
    ELSE <<[status       |-> alert.Status,
            labels       |-> alert.Labels,
            annotations  |-> alert.Annotations,
            startsAt     |-> alert.StartsAt,
            endsAt       |-> alert.EndsAt[1],
            generatorURL |-> alert.GeneratorURL]>>

\* http.Error(w, msg, code): the handler answers and returns without a POST.
Reject(code, msg) ==
    [post |-> FALSE, payload |-> <<>>,
     response |-> <<[code |-> code, body |-> msg \o "\n"]>>]

\* json.Marshal(alertmanagerV2Payload) fails when a time of the alert cannot
\* be written.
MarshalFails(alert, z) ==
    \/ YearOutOfRange(alert.StartsAt, z)
    \/ alert.EndsAt # <<>> /\ YearOutOfRange(alert.EndsAt[1], z)

\* The alert is serialized and the handler reaches http.Post, or answers 500
\* without a POST when the alert cannot be serialized.
Forward(alert, z) ==
    IF MarshalFails(alert, z)
    THEN Reject(500, "Failed to serialize Alertmanager payload")
    ELSE [post |-> TRUE, payload |-> Marshal(alert), response |-> <<>>]

\* fmt.Sprintf("Alert triggered in Splunk: %s", SearchName)
Summary(searchName) == "Alert triggered in Splunk: " \o searchName

\* EndsAt with the error of time.ParseDuration dropped.
EndsAtIgnoringError(c, startsAt) ==
    IF c.EndsAtDuration = "" THEN [err |-> FALSE, t |-> <<>>]
    ELSE LET p == ParseDuration(c.EndsAtDuration) IN
         [err |-> FALSE, t |-> <<Add(startsAt, p.d)>>]

\* EndsAt adding the duration to the zero time instead of startsAt.
EndsAtFromZero(c, startsAt) ==
    IF c.EndsAtDuration = "" THEN [err |-> FALSE, t |-> <<>>]
    ELSE LET p == ParseDuration(c.EndsAtDuration) IN
         IF p.err THEN [err |-> TRUE, t |-> <<>>]
         ELSE [err |-> FALSE, t |-> <<Add(Unix(0), p.d)>>]

\* The EndsAt block, the same in both revisions: nil when the flag is empty,
\* startsAt.Add(duration) when it parses.
EndsAt(c, startsAt) ==
    IF c.EndsAtDuration = "" THEN [err |-> FALSE, t |-> <<>>]
    ELSE LET p == ParseDuration(c.EndsAtDuration) IN
         IF p.err THEN [err |-> TRUE, t |-> <<>>]
         ELSE [err |-> FALSE, t |-> <<Add(startsAt, p.d)>>]

(***************************************************************************)
(* HandleSplunkWebhook, revision src/unnamed/part_002, up to http.Post.    *)
(***************************************************************************)
defaultLabels == <<"_raw", "host", "index", "name", "source", "sourcetype">>

\* for _, key := range defaultLabels { ... labels[key] = strVal }
RECURSIVE AddDefaultLabels(_, _, _)
AddDefaultLabels(labels, keys, result) ==
    IF keys = <<>> THEN labels
    ELSE LET key == Head(keys) IN
         AddDefaultLabels(
             IF IsString(result, key) THEN Put(labels, key, result[key].val)
             ELSE labels,
             Tail(keys), result)

\* for _, key := range cfg.AdditionalLabels { if key == "" { continue } ... }
RECURSIVE AddAdditionalLabels(_, _, _)
AddAdditionalLabels(labels, keys, result) ==
    IF keys = <<>> THEN labels
    ELSE LET key == Head(keys) IN
         AddAdditionalLabels(
             IF key # "" /\ IsString(result, key)
             THEN Put(labels, key, result[key].val)
             ELSE labels,
             Tail(keys), result)

HandleSplunkWebhook(b, c, z) ==
    IF b.kind = "unreadable" THEN Reject(400, "Failed to read request body")
    ELSE LET u == Unmarshal(b, SplunkPayloadFields)
             splunkPayload == u.payload
         IN
    IF u.err THEN Reject(400, "Failed to parse JSON")
    ELSE IF ~IsString(splunkPayload.Result, "_time")
    THEN Reject(400, "Invalid or missing trigger time")
    ELSE LET triggerTimeUnix == ParseInt(splunkPayload.Result["_time"].val) IN
    IF triggerTimeUnix.err THEN Reject(400, "Invalid trigger time format")
    ELSE LET startsAt == Unix(triggerTimeUnix.n)
             endsAt == EndsAt(c, startsAt)
         IN
    IF endsAt.err THEN Reject(400, "Invalid ends-at duration")
    ELSE LET labels ==
                 AddAdditionalLabels(
                     AddDefaultLabels(EmptyMap, defaultLabels,
                                      splunkPayload.Result),
                     c.AdditionalLabels, splunkPayload.Result)
             annotations ==
                 Put(Put(EmptyMap, "summary",
                         Summary(splunkPayload.SearchName)),
                     "link", splunkPayload.ResultsLink)
         IN  Forward(V2Alert(labels, annotations, startsAt, endsAt.t,
                             splunkPayload.ResultsLink), z)

(***************************************************************************)
(* HandleSplunkWebhook, revision archives/alertmanager.go.11022501 (lines  *)
(* 37 to 152), up to http.Post.  now is the value of time.Now(), z the     *)
(* zone of the process in both revisions.                                  *)
(***************************************************************************)
\* RouteEntry keeping a prefixed entry as a label as well.
RouteEntryBoth(m, key, value) ==
    IF value.type = "string"
    THEN IF HasPrefix(key, "ann.")
         THEN [labels |-> Put(m.labels, key, value.val),
               annotations |-> Put(m.annotations, TrimPrefix(key, "ann."),
                                   value.val)]
         ELSE [labels |-> Put(m.labels, key, value.val),
               annotations |-> m.annotations]
    ELSE m

\* One iteration of "for key, value := range splunkPayload.Result".
RouteEntry(m, key, value) ==
    IF value.type = "string"
    THEN IF HasPrefix(key, "ann.")
         THEN [labels |-> m.labels,
               annotations |-> Put(m.annotations, TrimPrefix(key, "ann."),
                                   value.val)]
         ELSE [labels |-> Put(m.labels, key, value.val),
               annotations |-> m.annotations]
    ELSE m

\* The whole range loop; Go visits the entries in an unspecified order.
RECURSIVE RouteEntries(_, _, _)
RouteEntries(m, keys, result) ==
    IF keys = {} THEN m
    ELSE LET key == CHOOSE k \in keys : TRUE IN
         RouteEntries(RouteEntry(m, key, result[key]), keys \ {key}, result)

\* The archived revision with the four names set before the range loop
\* instead of after it, so that a colliding entry overwrites them.
HandleSplunkWebhook_11022501_InjectFirst(b, c, z, now) ==
    IF b.kind = "unreadable" THEN Reject(400, "Failed to read request body")
    ELSE LET u == Unmarshal(b, SplunkWebhookFields)
             splunkPayload == u.payload
         IN
    IF u.err THEN Reject(400, "Failed to parse Splunk payload")
    ELSE LET labels ==
                 Put(Put(EmptyMap, "alertname", splunkPayload.SearchName),
                     "app", splunkPayload.App)
             annotations ==
                 Put(Put(EmptyMap, "summary",
                         Summary(splunkPayload.SearchName)),
                     "link", splunkPayload.ResultsLink)
             routed == RouteEntries(
                           [labels |-> labels, annotations |-> annotations],
                           DOMAIN splunkPayload.Result, splunkPayload.Result)
             startsAt == Unix(now)
             endsAt == EndsAt(c, startsAt)
         IN
    IF endsAt.err THEN Reject(400, "Invalid ends-at duration")
    ELSE Forward(V2Alert(routed.labels, routed.annotations, startsAt,
                         endsAt.t, splunkPayload.ResultsLink), z)

HandleSplunkWebhook_11022501(b, c, z, now) ==
    IF b.kind = "unreadable" THEN Reject(400, "Failed to read request body")
    ELSE LET u == Unmarshal(b, SplunkWebhookFields)
             splunkPayload == u.payload
         IN
    IF u.err THEN Reject(400, "Failed to parse Splunk payload")
    ELSE LET routed == RouteEntries(
                           [labels |-> EmptyMap, annotations |-> EmptyMap],
                           DOMAIN splunkPayload.Result, splunkPayload.Result)
             labels ==
                 Put(Put(routed.labels, "alertname", splunkPayload.SearchName),
                     "app", splunkPayload.App)
             annotations ==
                 Put(Put(routed.annotations, "summary",
                         Summary(splunkPayload.SearchName)),
                     "link", splunkPayload.ResultsLink)
             startsAt == Unix(now)
             endsAt == EndsAt(c, startsAt)
         IN
    IF endsAt.err THEN Reject(400, "Invalid ends-at duration")
    ELSE Forward(V2Alert(labels, annotations, startsAt, endsAt.t,
                         splunkPayload.ResultsLink), z)

(***************************************************************************)
(* HandleSplunkWebhook after http.Post returned (the same lines in both    *)
(* revisions): the response written to the caller.                         *)
(***************************************************************************)
\* ForwardResult taking every 2xx status of the destination for a success.
ForwardResultAny2xx(o) ==
    IF o.err
    THEN [code |-> 500, body |-> "Failed to send payload to Alertmanager\n"]
    ELSE IF o.status < 200 \/ o.status > 299
    THEN [code |-> 500,
          body |-> "Error from Alertmanager: " \o o.body \o "\n"]
    ELSE [code |-> 200,
          body |-> "Payload successfully forwarded to Alertmanager\n"]

ForwardResult(o) ==
    IF o.err
    THEN [code |-> 500, body |-> "Failed to send payload to Alertmanager\n"]
    ELSE IF o.status # 200
    THEN [code |-> 500,
          body |-> "Error from Alertmanager: " \o o.body \o "\n"]
    ELSE [code |-> 200,
          body |-> "Payload successfully forwarded to Alertmanager\n"]

(***************************************************************************)
(* The inputs of the model.                                                *)
(***************************************************************************)
Revisions == {"part_002", "11022501"}

\* The flags of LoadConfig at their defaults, and the processes of the
\* model: the command line of each sets one flag, and each runs in a zone.
DefaultFlags ==
    [u |-> "http://localhost:9093", e |-> "", addLabels |-> "", p |-> "ann."]

Processes ==
    {[flags |-> DefaultFlags, zone |-> UTC],
     [flags |-> [DefaultFlags EXCEPT !.e = "1h"], zone |-> UTC],
     [flags |-> [DefaultFlags EXCEPT !.e = "1.5s1\\u03bcs"], zone |-> Tokyo],
     [flags |-> [DefaultFlags EXCEPT !.e = "bogus"], zone |-> UTC],
     [flags |-> [DefaultFlags EXCEPT !.addLabels = "foo,,ann.foo"],
      zone |-> UTC],
     [flags |-> [DefaultFlags EXCEPT !.p = "x."], zone |-> UTC]}

Flags == {p.flags : p \in Processes}

Keys == {"host", "foo", "ann.foo", "x.foo", "_time", "ann.link"}

\* The values of the result sets with up to MaxEntries entries, and the other
\* JSON types, which occur in result sets of one entry.
Values == {JStr("bar"), JStr("1000"), JNum("42")}

OtherValues == {JNull, JBool("true"), JArr, JObj(NoMembers)}

ResultSets ==
    UNION {[D -> Values] :
             D \in {D \in SUBSET Keys : Cardinality(D) <= MaxEntries}}
    \cup UNION {[{k} -> OtherValues] : k \in Keys}

Event(result) ==
    JObj([search_name  |-> JStr("cpu-high"),
          app          |-> JStr("search"),
          results_link |-> JStr("http://splunk/r"),
          result       |-> result])

\* Result sets whose entries collide with the names the archived revision
\* sets itself: every combination of the four names, as strings.
CollisionKeys == {"alertname", "app", "ann.summary", "ann.link"}

CollisionSets == UNION {[D -> {JStr("bar")}] : D \in SUBSET CollisionKeys}

Docs ==
    {Event(JObj(rs)) : rs \in ResultSets \cup CollisionSets}
    \cup {Event(JNull), Event(JArr), Event(JStr("bar"))}
    \cup {JNull, JArr, JObj(NoMembers),
          JObj([search_name |-> JNum("42"),
                result |-> JObj([_time |-> JStr("1000")])]),
          JObj([result |-> JObj([_time |-> JStr("1000"),
                                 host |-> JStr("bar")])]),
          JObj([RESULT |-> JObj([_time |-> JStr("1000"),
                                 host |-> JStr("bar")])]),
          JObj([sid |-> JNum("42"),
                result |-> JObj([_time |-> JStr("1000")])]),
          JObj([owner |-> JNum("42"),
                result |-> JObj([_time |-> JStr("1000")])]),
          JObj(("re\\u017fult" :> JObj([_time |-> JStr("1000"),
                                        host |-> JStr("bar")]))
                 @@ ("search_name" :> JStr("cpu-high"))),
          JObj(("\\u017fid" :> JNum("42"))
                 @@ ("result" :> JObj([_time |-> JStr("1000")]))),
          Event(JObj([_time |-> JStr("9223372036854775808")]))}

Bodies ==
    {[kind |-> "json", doc |-> d] : d \in Docs}
    \cup {[kind |-> k, doc |-> JNull] : k \in {"unreadable", "empty", "garbage"}}

\* What http.Post can return: a transport error, or a response.
Outcomes ==
    {[err |-> TRUE,  status |-> 0,   body |-> ""],
     [err |-> FALSE, status |-> 200, body |-> ""],
     [err |-> FALSE, status |-> 202, body |-> "accepted"],
     [err |-> FALSE, status |-> 400, body |-> "bad alert"],
     [err |-> FALSE, status |-> 500, body |-> ""]}

\* The configurations LoadConfig can return for the command lines above.
Configs == {LoadConfig(f) : f \in Flags}

\* What a process has from its start on: its configuration and its zone.
Environments ==
    {[cfg |-> LoadConfig(p.flags), zone |-> p.zone] : p \in Processes}

NoBody == [kind |-> "none", doc |-> JNull]
NoOutcome == [err |-> FALSE, status |-> 0, body |-> ""]

(***************************************************************************)
(* The server.                                                             *)
(***************************************************************************)
Init ==
    /\ \E e \in Environments : cfg = e.cfg /\ zone = e.zone
    /\ revision \in Revisions
    /\ clock = 0
    /\ pc = [r \in Reqs |-> "idle"]
    /\ body = [r \in Reqs |-> NoBody]
    /\ handledAt = [r \in Reqs |-> 0]
    /\ outbox = [r \in Reqs |-> <<>>]
    /\ reply = [r \in Reqs |-> NoOutcome]
    /\ written = [r \in Reqs |-> <<>>]

\* The wall clock advances.
Tick ==
    /\ clock < MaxClock
    /\ clock' = clock + 1
    /\ UNCHANGED <<cfg, zone, revision, pc, body, handledAt, outbox, reply,
                   written>>

\* StartServer: the listener accepts a request on /splunk-webhook and routes
\* it to the handler.
Receive(r, b) ==
    /\ pc[r] = "idle"
    /\ pc' = [pc EXCEPT ![r] = "received"]
    /\ body' = [body EXCEPT ![r] = b]
    /\ UNCHANGED <<cfg, zone, revision, clock, handledAt, outbox, reply,
                   written>>

\* A process that exits when a request ended in a 500 response: the request
\* slot is never served again.
FinishUnlessServerError(r) ==
    /\ pc[r] = "done"
    /\ written[r][1].code # 500
    /\ pc' = [pc EXCEPT ![r] = "idle"]
    /\ body' = [body EXCEPT ![r] = NoBody]
    /\ handledAt' = [handledAt EXCEPT ![r] = 0]
    /\ outbox' = [outbox EXCEPT ![r] = <<>>]
    /\ reply' = [reply EXCEPT ![r] = NoOutcome]
    /\ written' = [written EXCEPT ![r] = <<>>]
    /\ UNCHANGED <<cfg, zone, revision, clock>>

\* The handler has returned and the request is over; nothing of it is kept,
\* and the listener serves the next request.
Finish(r) ==
    /\ pc[r] = "done"
    /\ pc' = [pc EXCEPT ![r] = "idle"]
    /\ body' = [body EXCEPT ![r] = NoBody]
    /\ handledAt' = [handledAt EXCEPT ![r] = 0]
    /\ outbox' = [outbox EXCEPT ![r] = <<>>]
    /\ reply' = [reply EXCEPT ![r] = NoOutcome]
    /\ written' = [written EXCEPT ![r] = <<>>]
    /\ UNCHANGED <<cfg, zone, revision, clock>>

\* The handler of the revision the server was built with.
Run(rev, b, c, z, now) ==
    IF rev = "part_002" THEN HandleSplunkWebhook(b, c, z)
    ELSE HandleSplunkWebhook_11022501(b, c, z, now)

\* HandleSplunkWebhook from its first line to the call of http.Post, or to
\* the http.Error that ends it.
\* The handler is a function of the request, the configuration, the zone and
\* the time of the call, and of nothing else: Run over every input of the
\* model.
RunTable ==
    [rev \in Revisions |-> [e \in Environments |-> [now \in 0..MaxClock |->
        [b \in Bodies |-> Run(rev, b, e.cfg, e.zone, now)]]]]

\* The environment of the running process.
Environment == [cfg |-> cfg, zone |-> zone]

\* Handle with the serialized payload kept in one buffer shared by all
\* requests: the POST of every request still in flight is overwritten.
HandleSharedPayload(r) ==
    /\ pc[r] = "received"
    /\ LET res == RunTable[revision][Environment][clock][body[r]] IN
       /\ handledAt' = [handledAt EXCEPT ![r] = clock]
       /\ outbox' = [q \in DOMAIN outbox |->
                       IF res.post /\ (q = r \/ pc[q] = "posting")
                       THEN <<res.payload>>
                       ELSE IF q = r THEN <<>> ELSE outbox[q]]
       /\ written' = [written EXCEPT ![r] = res.response]
       /\ pc' = [pc EXCEPT ![r] = IF res.post THEN "posting" ELSE "done"]
    /\ UNCHANGED <<cfg, zone, revision, clock, body, reply>>

Handle(r) ==
    /\ pc[r] = "received"
    /\ LET res == RunTable[revision][Environment][clock][body[r]] IN
       /\ handledAt' = [handledAt EXCEPT ![r] = clock]
       /\ outbox' = [outbox EXCEPT ![r] = IF res.post THEN <<res.payload>>
                                          ELSE <<>>]
       /\ written' = [written EXCEPT ![r] = res.response]
       /\ pc' = [pc EXCEPT ![r] = IF res.post THEN "posting" ELSE "done"]
    /\ UNCHANGED <<cfg, zone, revision, clock, body, reply>>

\* http.Post returns with outcome o and the handler writes its response.
PostReturns(r, o) ==
    /\ pc[r] = "posting"
    /\ reply' = [reply EXCEPT ![r] = o]
    /\ written' = [written EXCEPT ![r] = Append(@, ForwardResult(o))]
    /\ pc' = [pc EXCEPT ![r] = "done"]
    /\ UNCHANGED <<cfg, zone, revision, clock, body, handledAt, outbox>>

Next ==
    \/ Tick
    \/ \E r \in Reqs, b \in Bodies : Receive(r, b)
    \/ \E r \in Reqs : Handle(r)
    \/ \E r \in Reqs, o \in Outcomes : PostReturns(r, o)
    \/ \E r \in Reqs : Finish(r)

Spec == Init /\ [][Next]_vars

\* The same program under the scheduling the runtime gives it: a goroutine
\* that can run does run (the handler's synchronous part, and its return to
\* the serve loop).  Nothing obliges a caller to send a request, the clock to
\* move, or http.Post to return: the default client has no timeout, and a
\* destination that never answers keeps the handler in the call for ever.
FairSpec ==
    /\ Spec
    /\ \A r \in Reqs :
          /\ WF_vars(Handle(r))
          /\ WF_vars(Finish(r))

(***************************************************************************)
(* The server with two requests in flight at once: net/http runs the       *)
(* handler of each request on a goroutine of its own, and the steps of the *)
(* two handlers interleave in every order.                                 *)
(***************************************************************************)
ConcReqs == {1, 2}

\* The bodies sent while two requests are in flight: one the handlers of both
\* revisions forward, one that only the archived revision forwards, and one
\* that both reject.
ConcBodies ==
    {[kind |-> "json",
      doc |-> Event(JObj([_time |-> JStr("1000"), host |-> JStr("bar")]))],
     [kind |-> "json", doc |-> Event(JObj([host |-> JStr("bar")]))],
     [kind |-> "garbage", doc |-> JNull]}

InitConc ==
    /\ \E e \in Environments : cfg = e.cfg /\ zone = e.zone
    /\ revision \in Revisions
    /\ clock = 0
    /\ pc = [r \in ConcReqs |-> "idle"]
    /\ body = [r \in ConcReqs |-> NoBody]
    /\ handledAt = [r \in ConcReqs |-> 0]
    /\ outbox = [r \in ConcReqs |-> <<>>]
    /\ reply = [r \in ConcReqs |-> NoOutcome]
    /\ written = [r \in ConcReqs |-> <<>>]

NextConc ==
    \/ Tick
    \/ \E r \in ConcReqs, b \in ConcBodies : Receive(r, b)
    \/ \E r \in ConcReqs : Handle(r)
    \/ \E r \in ConcReqs, o \in Outcomes : PostReturns(r, o)
    \/ \E r \in ConcReqs : Finish(r)

SpecConc == InitConc /\ [][NextConc]_vars

TypeOK ==
    /\ revision \in Revisions
    /\ clock \in 0..MaxClock
    /\ \A r \in Reqs :
         /\ pc[r] \in {"idle", "received", "posting", "done"}
         /\ Len(outbox[r]) <= 1
         /\ Len(written[r]) <= 1

(***************************************************************************)
(* Vocabulary of the properties, read off the request and the state.       *)
(***************************************************************************)
\* The handler of request r has run up to its POST or its rejection.
Handled(r) == pc[r] \in {"posting", "done"}

\* The handler of request r has issued its POST.
Forwarded(r) == Len(outbox[r]) = 1

\* The alert of the POST of request r (the one element of the JSON array).
Alert(r) == outbox[r][1][1]

\* The body is JSON that is valid for the inbound event: an object (or null)
\* whose members for the string fields are strings or null and whose result
\* is an object or null, the members being taken without regard to case.
ValidEvent(b) ==
    /\ b.kind = "json"
    /\ \/ b.doc.type = "null"
       \/ /\ b.doc.type = "object"
          /\ \A k \in DOMAIN b.doc.members :
                /\ (\E f \in {"sid", "search_name", "app", "results_link"} :
                      EqualFold(k, f))
                     => b.doc.members[k].type \in {"string", "null"}
                /\ EqualFold(k, "result")
                     => b.doc.members[k].type \in {"object", "null"}

\* A string field of the inbound event, "" when it is absent.
Member(b, name) ==
    IF b.kind = "json" /\ b.doc.type = "object"
    THEN StringField(b.doc.members, name).v ELSE ""

\* The result set of the inbound event.
ResultOf(b) ==
    IF b.kind = "json" /\ b.doc.type = "object"
    THEN MapField(b.doc.members, "result").v ELSE NoMembers

StringMembers(members) == {k \in DOMAIN members : members[k].type = "string"}

StringKeys(b) == StringMembers(ResultOf(b))

DurationUnparsable(c) ==
    c.EndsAtDuration # "" /\ ParseDuration(c.EndsAtDuration).err

\* The entries of the result set whose value is not a JSON string.
NonStringKeys(b) == DOMAIN ResultOf(b) \ StringMembers(ResultOf(b))

\* The names the handlers set themselves, whatever the result set holds.
InjectedAnnotations == {"summary", "link"}
InjectedLabels == {"alertname", "app"}

\* The fixed allow-list and the non-empty configured additional labels.
AllowedLabels(c) ==
    ({"_raw", "host", "index", "name", "source", "sourcetype"}
       \cup {c.AdditionalLabels[i] : i \in DOMAIN c.AdditionalLabels}) \ {""}

\* What one entry of the result set yields: the labels and annotations of the
\* forwarded alert that change when the value of that entry alone changes.
\* The other value is of the same kind: a digit appended to the text.
OtherValue(v) == v \o "0"

ProbeBody(b, k) ==
    [b EXCEPT !.doc.members =
        [n \in DOMAIN @ |->
            IF /\ EqualFold(n, "result") /\ @[n].type = "object"
               /\ k \in DOMAIN @[n].members
            THEN [@[n] EXCEPT !.members[k].val = OtherValue(@)]
            ELSE @[n]]]

Probe(r, k) ==
    Run(revision, ProbeBody(body[r], k), cfg, zone, handledAt[r])

Differs(m1, m2, x) == x \notin DOMAIN m2 \/ m2[x] # m1[x]

\* The labels and the annotations of the alert of r that the run q of the
\* handler does not give as well.
LabelsNotIn(r, q) ==
    {l \in DOMAIN Alert(r).labels :
        ~q.post \/ Differs(Alert(r).labels, q.payload[1].labels, l)}

AnnotationsNotIn(r, q) ==
    {n \in DOMAIN Alert(r).annotations :
        ~q.post \/ Differs(Alert(r).annotations, q.payload[1].annotations, n)}

LabelsFrom(r, k) == LabelsNotIn(r, Probe(r, k))

AnnotationsFrom(r, k) == AnnotationsNotIn(r, Probe(r, k))

\* Both, for the entry k, from one run q.
YieldIn(r, k, q) ==
    [key |-> k,
     labels |-> LabelsNotIn(r, q),
     annotations |-> AnnotationsNotIn(r, q)]

Yield(r, k) == YieldIn(r, k, Probe(r, k))

\* Two handled requests carry the same inbound event.
SameEvent(r, q) == Handled(r) /\ Handled(q) /\ body[r] = body[q]

\* Two requests have the same outbound POST and, once both are answered after
\* the same reply of the destination, the same response.
SameOutput(r, q) ==
    /\ outbox[r] = outbox[q]
    /\ (pc[r] = "done" /\ pc[q] = "done" /\ reply[r] = reply[q])
         => written[r] = written[q]

\* A step leaves the configuration alone and changes what is kept for one
\* request at most.
OwnStateOnly ==
    /\ cfg' = cfg
    /\ zone' = zone
    /\ \E r \in DOMAIN pc :
         \A q \in DOMAIN pc \ {r} :
            /\ pc'[q] = pc[q]
            /\ body'[q] = body[q]
            /\ handledAt'[q] = handledAt[q]
            /\ outbox'[q] = outbox[q]
            /\ reply'[q] = reply[q]
            /\ written'[q] = written[q]

(***************************************************************************)
(* C1: a request whose body is empty or not valid JSON for the inbound     *)
(* event, or that meets a non-empty unparsable end-time duration, is       *)
(* answered with 400 and causes no outbound POST.                          *)
(***************************************************************************)
C1_BadRequestRejected ==
    \A r \in Reqs :
        (Handled(r) /\ (~ValidEvent(body[r]) \/ DurationUnparsable(cfg)))
        => /\ pc[r] = "done"
           /\ outbox[r] = <<>>
           /\ Len(written[r]) = 1
           /\ written[r][1].code = 400

C1_Witness ==
    \E r \in Reqs :
        /\ pc[r] = "done"
        /\ body[r].kind = "json"
        /\ ValidEvent(body[r])
        /\ cfg.EndsAtDuration = "bogus"
        /\ outbox[r] = <<>>
        /\ written[r][1].code = 400
        /\ written[r][1].body = "Invalid ends-at duration\n"

(***************************************************************************)
(* C2: once the POST of a request has returned, the caller got 200 exactly *)
(* when the destination answered 200; any other status gives 500 with the  *)
(* destination's body text in the response body, a transport failure gives *)
(* 500.                                                                    *)
(***************************************************************************)
C2_RelayOutcome ==
    \A r \in Reqs :
        (pc[r] = "done" /\ Forwarded(r))
        => /\ Len(written[r]) = 1
           /\ written[r][1].code = 200
                <=> (~reply[r].err /\ reply[r].status = 200)
           /\ (~reply[r].err /\ reply[r].status # 200)
                => /\ written[r][1].code = 500
                   /\ Contains(written[r][1].body, reply[r].body)
           /\ reply[r].err => written[r][1].code = 500

C2_Witness ==
    \E r \in Reqs :
        /\ pc[r] = "done"
        /\ Forwarded(r)
        /\ reply[r].status = 202
        /\ reply[r].body = "accepted"
        /\ written[r][1].code = 500

(***************************************************************************)
(* C3: every request causes at most one POST: exactly one when the body    *)
(* decodes and the configured duration is empty or parseable, none         *)
(* otherwise; the POST precedes the response, and nothing is posted again  *)
(* once the response is written.                                           *)
(***************************************************************************)
C3_OnePostPerDecodedRequest ==
    \A r \in Reqs :
        /\ Len(outbox[r]) <= 1
        /\ pc[r] = "posting" => (Forwarded(r) /\ written[r] = <<>>)
        /\ Handled(r)
             => Len(outbox[r]) =
                  IF ValidEvent(body[r]) /\ ~DurationUnparsable(cfg)
                  THEN 1 ELSE 0

(***************************************************************************)
(* C4: with the configured annotation prefix P, every string entry keyed   *)
(* P followed by k gives the annotation k with the entry's value and no    *)
(* label, and an annotation that is not the injected summary or link only  *)
(* comes from a key that starts with P.                                    *)
(***************************************************************************)
C4_ConfiguredPrefixRoutesAnnotations ==
    \A r \in Reqs :
        Forwarded(r)
        => LET rs == ResultOf(body[r])
               P == cfg.AnnotationPrefix
               a == Alert(r)
           IN  /\ \A k \in StringKeys(body[r]) :
                    (HasPrefix(k, P) /\ TrimPrefix(k, P) \notin InjectedAnnotations)
                    => /\ TrimPrefix(k, P) \in DOMAIN a.annotations
                       /\ a.annotations[TrimPrefix(k, P)] = rs[k].val
                       /\ k \notin DOMAIN a.labels
               /\ \A n \in DOMAIN a.annotations \ InjectedAnnotations :
                    (P \o n) \in StringKeys(body[r])

(***************************************************************************)
(* C5: a string entry of the result set becomes a label exactly when its   *)
(* key is in the fixed allow-list or among the non-empty configured        *)
(* additional labels; any other entry that does not start with the         *)
(* annotation prefix appears neither as a label nor as an annotation.      *)
(***************************************************************************)
C5_LabelsAreTheAllowList ==
    \A r \in Reqs :
        Forwarded(r)
        => LET rs == ResultOf(body[r])
               a == Alert(r)
           IN  /\ \A k \in StringKeys(body[r]) :
                    (k \in DOMAIN a.labels /\ a.labels[k] = rs[k].val)
                    <=> k \in AllowedLabels(cfg)
               /\ \A k \in DOMAIN rs :
                    (k \notin AllowedLabels(cfg)
                       /\ ~HasPrefix(k, cfg.AnnotationPrefix))
                    => /\ k \notin DOMAIN a.labels \ InjectedLabels
                       /\ k \notin DOMAIN a.annotations \ InjectedAnnotations

(***************************************************************************)
(* C6: an entry of the result set whose value is not a JSON string gives   *)
(* no label and no annotation, and a request that decodes under a usable   *)
(* configuration is forwarded all the same.                                *)
(***************************************************************************)
C6_NonStringEntriesSkipped ==
    \A r \in Reqs :
        (/\ Handled(r) /\ ValidEvent(body[r]) /\ ~DurationUnparsable(cfg)
         /\ NonStringKeys(body[r]) # {})
        => /\ Forwarded(r)
           /\ \A k \in NonStringKeys(body[r]) :
                /\ k \notin DOMAIN Alert(r).labels \ InjectedLabels
                /\ \A p \in {"", "ann.", cfg.AnnotationPrefix} :
                     TrimPrefix(k, p)
                       \notin DOMAIN Alert(r).annotations \ InjectedAnnotations

(***************************************************************************)
(* C7: for an event whose result entries are all strings, no entry yields  *)
(* both a label and an annotation (it yields at most one of them), and     *)
(* every label or annotation that depends on the result set depends on     *)
(* exactly one entry.  An entry yields the labels and annotations that     *)
(* change when the value of that entry alone changes.                      *)
(***************************************************************************)
C7_EntriesPartitioned ==
    \A r \in Reqs :
        (Forwarded(r) /\ NonStringKeys(body[r]) = {})
        => LET yields == {Yield(r, k) : k \in DOMAIN ResultOf(body[r])} IN
           /\ \A y \in yields :
                Cardinality(y.labels) + Cardinality(y.annotations) <= 1
           /\ \A l \in DOMAIN Alert(r).labels :
                Cardinality({y \in yields : l \in y.labels}) <= 1
           /\ \A n \in DOMAIN Alert(r).annotations :
                Cardinality({y \in yields : n \in y.annotations}) <= 1

C7_Witness ==
    \E r \in Reqs :
        /\ Forwarded(r)
        /\ NonStringKeys(body[r]) = {}
        /\ \E k1, k2 \in DOMAIN ResultOf(body[r]) :
             /\ LabelsFrom(r, k1) # {}
             /\ AnnotationsFrom(r, k2) = {"foo"}

(***************************************************************************)
(* C8: every forwarded alert has the label alertname with the event's      *)
(* search_name and the label app with the event's app.                     *)
(***************************************************************************)
C8_SourceLabelsInjected ==
    \A r \in Reqs :
        Forwarded(r)
        => /\ "alertname" \in DOMAIN Alert(r).labels
           /\ Alert(r).labels["alertname"] = Member(body[r], "search_name")
           /\ "app" \in DOMAIN Alert(r).labels
           /\ Alert(r).labels["app"] = Member(body[r], "app")

(***************************************************************************)
(* C9: every forwarded alert has status "firing", a summary annotation, a  *)
(* link annotation equal to the event's results link, and a generator URL  *)
(* equal to that link.                                                     *)
(***************************************************************************)
C9_FixedFieldsOfTheAlert ==
    \A r \in Reqs :
        Forwarded(r)
        => /\ Alert(r).status = "firing"
           /\ "summary" \in DOMAIN Alert(r).annotations
           /\ "link" \in DOMAIN Alert(r).annotations
           /\ Alert(r).annotations["link"] = Member(body[r], "results_link")
           /\ Alert(r).generatorURL = Member(body[r], "results_link")

C9_Witness ==
    \E r \in Reqs :
        /\ Forwarded(r)
        /\ Member(body[r], "results_link") = "http://splunk/r"
        /\ "ann.link" \in StringKeys(body[r])
        /\ Alert(r).generatorURL = "http://splunk/r"

(***************************************************************************)
(* C10: the start time of a forwarded alert is the wall clock at which the *)
(* handler ran, whatever the result set says: a request that decodes under *)
(* a usable configuration is forwarded with or without a "_time" entry.    *)
(***************************************************************************)
C10_StartTimeIsReceiptTime ==
    \A r \in Reqs :
        /\ (Handled(r) /\ ValidEvent(body[r]) /\ ~DurationUnparsable(cfg))
             => Forwarded(r)
        /\ Forwarded(r) => Alert(r).startsAt = Unix(handledAt[r])

(***************************************************************************)
(* C11: with a non-empty end-time offset that parses to the duration d,    *)
(* every forwarded alert ends exactly d after its own start time ("1h" is  *)
(* 3600 seconds, "1.5s" and a microsecond are 1 s and 500001000 ns); with  *)
(* an empty offset the forwarded alert has no end time at all.             *)
(***************************************************************************)
C11_EndTimeIsStartPlusOffset ==
    \A r \in Reqs :
        Forwarded(r)
        => IF cfg.EndsAtDuration = ""
           THEN "endsAt" \notin DOMAIN Alert(r)
           ELSE /\ "endsAt" \in DOMAIN Alert(r)
                /\ Alert(r).endsAt
                     = Add(Alert(r).startsAt,
                           ParseDuration(cfg.EndsAtDuration).d)
                /\ cfg.EndsAtDuration = "1h"
                     => /\ Alert(r).endsAt.sec = Alert(r).startsAt.sec + 3600
                        /\ Alert(r).endsAt.nsec = Alert(r).startsAt.nsec
                /\ cfg.EndsAtDuration = "1.5s1\\u03bcs"
                     => /\ Alert(r).endsAt.sec = Alert(r).startsAt.sec + 1
                        /\ Alert(r).endsAt.nsec
                             = Alert(r).startsAt.nsec + 500001000

C11_Witness ==
    \E r \in Reqs :
        /\ Forwarded(r)
        /\ zone = UTC
        /\ cfg.EndsAtDuration = "1h"
        /\ Alert(r).startsAt.sec > 0
        /\ Alert(r).endsAt = Nanos(Alert(r).startsAt.sec + 3600, 0)

(***************************************************************************)
(* C12: no request outcome is fatal to the process.  Provided the          *)
(* destination answers every POST or the connection fails (no request      *)
(* stays in http.Post for ever), every received request is handled to      *)
(* completion with exactly one response written to its caller, whatever    *)
(* the outcome (400, 500 or 200), and whatever the outcomes so far the     *)
(* listener is serving again, ready for the next request.                  *)
(***************************************************************************)
C12_NoOutcomeIsFatal ==
    \A r \in Reqs :
        /\ []<>(pc[r] # "posting")
             => /\ pc[r] \in {"received", "posting"}
                     ~> (pc[r] = "done" /\ Len(written[r]) = 1)
                /\ []<>(pc[r] = "idle")
        /\ [](/\ pc[r] = "done" => written[r][1].code \in {200, 400, 500}
              /\ pc[r] = "idle" => ENABLED (\E b \in Bodies : Receive(r, b)))

C12_Witness ==
    \E r \in Reqs :
        /\ pc[r] = "done"
        /\ reply[r].err
        /\ Len(written[r]) = 1
        /\ written[r][1].code = 500

(***************************************************************************)
(* C13: for requests handled concurrently, in any interleaving of their    *)
(* steps, the outbound alert of a request and the response to its caller   *)
(* depend only on the inbound event of that request, the configuration,    *)
(* the time at which its handler ran, and the reply of the destination to  *)
(* its own POST; no step of a handler writes state of another request, and *)
(* the configuration is the same before and after every step.              *)
(***************************************************************************)
C13_RequestsAreIsolated ==
    /\ [](\A r, q \in ConcReqs :
            (SameEvent(r, q) /\ handledAt[r] = handledAt[q])
            => SameOutput(r, q))
    /\ [][OwnStateOnly]_vars

C13_Witness ==
    /\ pc[1] = "posting"
    /\ pc[2] = "done"
    /\ Forwarded(1) /\ Forwarded(2)
    /\ body[1] = body[2]
    /\ handledAt[1] = handledAt[2]
    /\ outbox[1] = outbox[2]

\* C13 as stated, without the time at which the handler ran: under one
\* configuration, two requests with the same inbound event yield the same
\* outbound alert, and the same response when the destination replies the
\* same.
C13_OwnEventConfigurationAndReplyOnly ==
    \A r, q \in ConcReqs : SameEvent(r, q) => SameOutput(r, q)

(***************************************************************************)
(* C14: in the archived revision that routes by the "ann." prefix, the     *)
(* values the handler sets itself take precedence over result-set entries  *)
(* with a colliding key.  When the result set has string entries keyed     *)
(* "alertname" or "app", the forwarded labels "alertname" and "app" are    *)
(* the search_name and app of the event; when it has "ann.summary" or      *)
(* "ann.link", the forwarded annotations "summary" and "link" are the      *)
(* summary text and the results link, never the values of the result set.  *)
(***************************************************************************)
C14_InjectedValuesTakePrecedence ==
    \A r \in Reqs :
        (revision = "11022501" /\ Forwarded(r))
        => /\ StringKeys(body[r]) \cap {"alertname", "app"} # {}
                => /\ Alert(r).labels["alertname"]
                        = Member(body[r], "search_name")
                   /\ Alert(r).labels["app"] = Member(body[r], "app")
           /\ StringKeys(body[r]) \cap {"ann.summary", "ann.link"} # {}
                => /\ Alert(r).annotations["summary"]
                        = Summary(Member(body[r], "search_name"))
                   /\ Alert(r).annotations["link"]
                        = Member(body[r], "results_link")

C14_Witness ==
    \E r \in Reqs :
        /\ revision = "11022501"
        /\ Forwarded(r)
        /\ CollisionKeys \subseteq StringKeys(body[r])
        /\ Alert(r).labels["alertname"] = "cpu-high"
        /\ Alert(r).labels["app"] = "search"
        /\ Alert(r).annotations["summary"] = "Alert triggered in Splunk: cpu-high"
        /\ Alert(r).annotations["link"] = "http://splunk/r"

====
